---- MODULE Spec2Model ----
(***************************************************************************)
(* Model of the two ETL pipelines of the repository.                       *)
(*   pipeline1/ETL_for_MasterTable.py      : the master-table builder      *)
(*   pipeline2/ETL_fileconversion_toXML.py : the tag/alias table converter *)
(* Floating point numbers are modelled as exact rationals, the pandas      *)
(* missing value as NaN, Python strings as Str(..) values.                 *)
(***************************************************************************)
EXTENDS Integers, Sequences, FiniteSets, TLC

VARIABLES source_data, aprm_data, dcs_data,
          master_records, master_record, master_table,
          batch_idx, event_num, pc, calls,
          xpc, df, test_ok, row_idx, structure, emitted, skipped, files_done

vars1 == <<source_data, aprm_data, dcs_data, master_records, master_record,
           master_table, batch_idx, event_num, pc, calls>>
vars2 == <<xpc, df, test_ok, row_idx, structure, emitted, skipped, files_done>>
vars == <<vars1, vars2>>

(***************************************************************************)
(* Bounds of the model.                                                    *)
(***************************************************************************)
MaxBatches == 2
MaxRows == 2
MaxTime == 1
MaxXmlRows == 2
MaxFiles == 1

(***************************************************************************)
(* Values: Python objects held in table cells and in the master record.    *)
(***************************************************************************)
RECURSIVE GCD(_, _)
GCD(a, b) == IF b = 0 THEN a ELSE GCD(b, a % b)

Abs(n) == IF n < 0 THEN -n ELSE n

NaN == [kind |-> "nan", num |-> 0, den |-> 1, s |-> ""]
None == [kind |-> "none", num |-> 0, den |-> 1, s |-> ""]
Str(x) == [kind |-> "str", num |-> 0, den |-> 1, s |-> x]

\* the float n/d (d > 0), in lowest terms
Flt(n, d) ==
    LET g == GCD(Abs(n), d)
    IN [kind |-> "float", num |-> n \div g, den |-> d \div g, s |-> ""]

\* the float sqrt(n/d) when it is not rational
Surd(n, d) == [kind |-> "sqrt", num |-> n, den |-> d, s |-> ""]

IsSquare(n) == \E k \in 0..n : k * k = n
ISqrt(n) == CHOOSE k \in 0..n : k * k = n

Add(a, b) == Flt(a.num * b.den + b.num * a.den, a.den * b.den)
Sub(a, b) == Flt(a.num * b.den - b.num * a.den, a.den * b.den)
Mul(a, b) == Flt(a.num * b.num, a.den * b.den)
DivInt(a, n) == Flt(a.num, a.den * n)
Leq(a, b) == a.num * b.den <= b.num * a.den

\* numpy sqrt of a non-negative float
Sqrt(a) ==
    IF IsSquare(a.num) /\ IsSquare(a.den)
    THEN Flt(ISqrt(a.num), ISqrt(a.den))
    ELSE Surd(a.num, a.den)

pd_isna(v) == v.kind \in {"nan", "none"}
pd_notna(v) == ~pd_isna(v)

RECURSIVE SumSeq(_)
SumSeq(xs) == IF xs = <<>> THEN Flt(0, 1) ELSE Add(Head(xs), SumSeq(Tail(xs)))

RECURSIVE MaxSeq(_)
MaxSeq(xs) ==
    IF Len(xs) = 1 THEN xs[1]
    ELSE LET m == MaxSeq(Tail(xs)) IN IF Leq(m, Head(xs)) THEN Head(xs) ELSE m

RECURSIVE MinSeq(_)
MinSeq(xs) ==
    IF Len(xs) = 1 THEN xs[1]
    ELSE LET m == MinSeq(Tail(xs)) IN IF Leq(Head(xs), m) THEN Head(xs) ELSE m

\* Series.mean()
Mean(xs) == DivInt(SumSeq(xs), Len(xs))

RECURSIVE SqDev(_, _)
SqDev(xs, avg) ==
    IF xs = <<>> THEN Flt(0, 1)
    ELSE LET d == Sub(avg, Head(xs)) IN Add(Mul(d, d), SqDev(Tail(xs), avg))

\* the standard deviation with divisor n
StdPopulation(xs) == Sqrt(DivInt(SqDev(xs, Mean(xs)), Len(xs)))

\* Series.std(): pandas' default ddof = 1
Std(xs) == Sqrt(DivInt(SqDev(xs, Mean(xs)), Len(xs) - 1))

(***************************************************************************)
(* Conversions.                                                            *)
(***************************************************************************)
Digits == <<"0", "1", "2", "3", "4", "5", "6", "7", "8", "9">>

\* does the text read as a number (one-digit numerals are the model's numbers)
IsNumeral(s) == \E i \in DOMAIN Digits : Digits[i] = s
NumeralValue(s) == (CHOOSE i \in DOMAIN Digits : Digits[i] = s) - 1

\* pd.to_numeric(x, errors='coerce') on one cell
to_numeric(v) ==
    CASE v.kind = "float" -> v
      [] v.kind = "str" /\ IsNumeral(v.s) -> Flt(NumeralValue(v.s), 1)
      [] OTHER -> NaN

\* float(x): exc is TRUE when Python raises ValueError
float(v) ==
    CASE v.kind = "float" -> [exc |-> FALSE, val |-> v]
      [] v.kind = "nan" -> [exc |-> FALSE, val |-> NaN]
      [] v.kind = "str" /\ IsNumeral(v.s) -> [exc |-> FALSE, val |-> Flt(NumeralValue(v.s), 1)]
      [] OTHER -> [exc |-> TRUE, val |-> NaN]

\* repr of a float inside an f-string: 2.0, 0.5
FloatRepr(v) ==
    IF v.den = 1 THEN ToString(v.num) \o ".0"
    ELSE IF v.den = 2 THEN ToString(v.num \div 2) \o ".5"
    ELSE ToString(v.num) \o "/" \o ToString(v.den)

Times == 0..MaxTime
TimeStr(t) == "2024-01-01T0" \o ToString(t) \o ":00:00"

\* pd.to_datetime(x) on one scalar: exc when the text is no timestamp,
\* nat for a null or empty argument
to_datetime(v) ==
    CASE v.kind = "str" /\ (\E t \in Times : TimeStr(t) = v.s) ->
            [exc |-> FALSE, nat |-> FALSE, t |-> CHOOSE t \in Times : TimeStr(t) = v.s]
      [] v.kind \in {"nan", "none"} \/ v = Str("") ->
            [exc |-> FALSE, nat |-> TRUE, t |-> 0]
      [] OTHER -> [exc |-> TRUE, nat |-> FALSE, t |-> 0]

(***************************************************************************)
(* pipeline1: helpers.                                                     *)
(***************************************************************************)
\* the labels of 1 and 0 exchanged
convert_valve_position_to_text_swapped(valve_position) ==
    IF pd_isna(valve_position) THEN Str("Unknown")
    ELSE IF valve_position = Flt(1, 1) THEN Str("Close")
    ELSE IF valve_position = Flt(0, 1) THEN Str("Open")
    ELSE Str("Partial (" \o FloatRepr(valve_position) \o ")")

convert_valve_position_to_text(valve_position) ==
    IF pd_isna(valve_position) THEN Str("Unknown")
    ELSE IF valve_position = Flt(1, 1) THEN Str("Open")
    ELSE IF valve_position = Flt(0, 1) THEN Str("Close")
    ELSE Str("Partial (" \o FloatRepr(valve_position) \o ")")

\* the mask with the end bound exclusive
RECURSIVE SelectRowsExclusiveEnd(_, _, _, _, _)
SelectRowsExclusiveEnd(rows, tcol, i, lo, hi) ==
    IF i > Len(rows) THEN <<>>
    ELSE (IF rows[i][tcol] >= lo /\ rows[i][tcol] < hi THEN <<i>> ELSE <<>>)
         \o SelectRowsExclusiveEnd(rows, tcol, i + 1, lo, hi)

\* the boolean mask (table[tcol] >= lo) & (table[tcol] <= hi), from row i on
RECURSIVE SelectRows(_, _, _, _, _)
SelectRows(rows, tcol, i, lo, hi) ==
    IF i > Len(rows) THEN <<>>
    ELSE (IF rows[i][tcol] >= lo /\ rows[i][tcol] <= hi THEN <<i>> ELSE <<>>)
         \o SelectRows(rows, tcol, i + 1, lo, hi)

\* table[(table[Time] >= start_time) & (table[Time] <= end_time)], as the
\* positions of the selected rows; a comparison with NaT is False
TimeRange(rows, tcol, start_time, end_time) ==
    IF start_time.nat \/ end_time.nat THEN <<>>
    ELSE SelectRows(rows, tcol, 1, start_time.t, end_time.t)

\* pd.to_numeric(column, errors='coerce').dropna() over the selected rows
RECURSIVE NumericColumn(_, _, _)
NumericColumn(rows, subset, col) ==
    IF subset = <<>> THEN <<>>
    ELSE LET v == to_numeric(rows[Head(subset)][col])
         IN (IF pd_isna(v) THEN <<>> ELSE <<v>>)
            \o NumericColumn(rows, Tail(subset), col)

DcsRaise(selected, subset) ==
    [exc |-> TRUE, valve |-> NaN, pump |-> NaN, selected |-> selected, subset |-> subset]

\* the try block of get_dcs_data_for_timerange; exc: an exception left it,
\* subset: the selected rows when the selection was made (<<"none">> otherwise)
DcsTry(dcs, start_time_str, end_time_str) ==
    LET start_time == to_datetime(start_time_str)
        end_time == to_datetime(end_time_str)
        subset == TimeRange(dcs.rows, "Time_dt", start_time, end_time)
        pump_speed_data == NumericColumn(dcs.rows, subset, "pump_speed")
        avg_pump_speed == IF Len(pump_speed_data) > 0 THEN Mean(pump_speed_data) ELSE NaN
        valve_position == dcs.rows[subset[1]]["valve_position"]
    IN  IF start_time.exc \/ end_time.exc THEN DcsRaise(FALSE, <<>>)
        ELSE IF Len(subset) = 0
        THEN [exc |-> FALSE, valve |-> NaN, pump |-> NaN, selected |-> TRUE, subset |-> subset]
        ELSE IF "valve_position" \notin dcs.columns THEN DcsRaise(TRUE, subset)
        ELSE IF "pump_speed" \notin dcs.columns THEN DcsRaise(TRUE, subset)
        ELSE IF float(valve_position).exc THEN DcsRaise(TRUE, subset)
        ELSE [exc |-> FALSE, valve |-> float(valve_position).val,
              pump |-> avg_pump_speed, selected |-> TRUE, subset |-> subset]

\* the function without its except clause
get_dcs_data_for_timerange_uncaught(dcs, start_time_str, end_time_str) ==
    DcsTry(dcs, start_time_str, end_time_str)

\* try: ... except Exception: return np.nan, np.nan
get_dcs_data_for_timerange(dcs, start_time_str, end_time_str) ==
    LET r == DcsTry(dcs, start_time_str, end_time_str)
    IN IF r.exc THEN [r EXCEPT !.exc = FALSE]
       ELSE r

Params == {1, 2, 3}
Stats == {"avg", "sd", "max", "min"}
StatKey(i, stat) == "para" \o ToString(i) \o "_" \o stat
ParamCol(i) == "Parameter " \o ToString(i)

AllNaNStats == [k \in {StatKey(i, st) : i \in Params, st \in Stats} |-> NaN]

\* the body of the for param_num loop of calculate_parameter_stats_for_timerange
ParamStat(src, subset, param_num, stat) ==
    LET param_col == ParamCol(param_num)
        param_data == NumericColumn(src.rows, subset, param_col)
    IN  IF param_col \in src.columns /\ Len(param_data) > 0
        THEN CASE stat = "avg" -> Mean(param_data)
               [] stat = "sd" -> (IF Len(param_data) > 1 THEN Std(param_data) ELSE Flt(0, 1))
               [] stat = "max" -> MaxSeq(param_data)
               [] stat = "min" -> MinSeq(param_data)
        ELSE NaN

StatsTry(src, start_time_str, end_time_str) ==
    LET start_time == to_datetime(start_time_str)
        end_time == to_datetime(end_time_str)
        subset == TimeRange(src.rows, "Time", start_time, end_time)
    IN  IF start_time.exc \/ end_time.exc
        THEN [exc |-> TRUE, stats |-> AllNaNStats, selected |-> FALSE, subset |-> <<>>]
        ELSE IF Len(subset) = 0
        THEN [exc |-> FALSE, stats |-> AllNaNStats, selected |-> TRUE, subset |-> subset]
        ELSE [exc |-> FALSE, selected |-> TRUE, subset |-> subset,
              stats |-> [k \in DOMAIN AllNaNStats |->
                           LET i == CHOOSE i \in Params : \E st \in Stats : StatKey(i, st) = k
                               st == CHOOSE st \in Stats : StatKey(i, st) = k
                           IN ParamStat(src, subset, i, st)]]

calculate_parameter_stats_for_timerange(src, start_time_str, end_time_str) ==
    LET r == StatsTry(src, start_time_str, end_time_str)
    IN IF r.exc THEN [r EXCEPT !.exc = FALSE, !.stats = AllNaNStats]
       ELSE r

(***************************************************************************)
(* pipeline1: create_master_table, one step per loop iteration.            *)
(***************************************************************************)
Events == {1, 2, 3}
EventKey(e, f) == "E" \o ToString(e) \o "_" \o f
ParaKey(e, stat, i) == "E" \o ToString(e) \o "_" \o stat \o "Para" \o ToString(i)
StatName(stat) ==
    CASE stat = "avg" -> "Avg" [] stat = "sd" -> "SD" [] stat = "max" -> "Max" [] stat = "min" -> "Min"

ParaKeys(e) == {ParaKey(e, StatName(st), i) : st \in Stats, i \in Params}
DerivedKeys(e) ==
    {EventKey(e, "ValvePosAtStart"), EventKey(e, "ValveStatusAtStart"),
     EventKey(e, "AvgPumpSpd")} \cup ParaKeys(e)

\* dict update: d | u
Update(d, u) == [k \in DOMAIN d \cup DOMAIN u |-> IF k \in DOMAIN u THEN u[k] ELSE d[k]]

\* keys E<n>_<Stat>Para<i> filled from param_stats
ParaFields(e, param_stats) ==
    [k \in ParaKeys(e) |->
        LET i == CHOOSE i \in Params : \E st \in Stats : ParaKey(e, StatName(st), i) = k
            st == CHOOSE st \in Stats : ParaKey(e, StatName(st), i) = k
        IN param_stats[StatKey(i, st)]]

\* the "Fill with NaN values" block
MissingFields(e) ==
    Update([k \in DerivedKeys(e) |-> NaN],
           (EventKey(e, "ValveStatusAtStart") :> Str("Unknown")))

\* the test without its comparisons with the empty string
TimesMissingNullOnly(start_time_str, end_time_str) ==
    pd_isna(start_time_str) \/ pd_isna(end_time_str)

\* if pd.isna(start) or pd.isna(end) or start == '' or end == ''
TimesMissing(start_time_str, end_time_str) ==
    \/ pd_isna(start_time_str) \/ pd_isna(end_time_str)
    \/ start_time_str = Str("") \/ end_time_str = Str("")

NoTable == [columns |-> {}, rows |-> <<>>]

\* for batch_idx, batch_row in aprm_data.iterrows(): ... master_record = {...}
StartBatch ==
    /\ pc = "batches"
    /\ batch_idx < Len(aprm_data.rows)
    /\ batch_idx' = batch_idx + 1
    /\ master_record' = ("Batch_ID" :> aprm_data.rows[batch_idx + 1]["Batch_ID"])
    /\ event_num' = 1
    /\ calls' = {}
    /\ pc' = "events"
    /\ UNCHANGED <<source_data, aprm_data, dcs_data, master_records, master_table, vars2>>

\* one iteration of: for event_num in [1, 2, 3]
ProcessEvent ==
    /\ pc = "events"
    /\ event_num <= 3
    /\ LET batch_row == aprm_data.rows[batch_idx]
           start_col == EventKey(event_num, "start")
           end_col == EventKey(event_num, "end")
       IN IF start_col \in DOMAIN batch_row /\ end_col \in DOMAIN batch_row
          THEN LET start_time_str == batch_row[start_col]
                   end_time_str == batch_row[end_col]
                   times == (start_col :> (IF pd_notna(start_time_str) THEN start_time_str ELSE None))
                            @@ (end_col :> (IF pd_notna(end_time_str) THEN end_time_str ELSE None))
                   \* record of one helper call: its arguments and the rows it selected
                   Call(fn, r) == [event_num |-> event_num, fn |-> fn,
                                   start_time_str |-> start_time_str,
                                   end_time_str |-> end_time_str,
                                   selected |-> r.selected, subset |-> r.subset]
                   d == get_dcs_data_for_timerange(dcs_data, start_time_str, end_time_str)
                   p == calculate_parameter_stats_for_timerange(source_data, start_time_str, end_time_str)
               IN IF TimesMissing(start_time_str, end_time_str)
                  THEN /\ master_record' = Update(Update(master_record, times), MissingFields(event_num))
                       /\ event_num' = event_num + 1
                       /\ UNCHANGED <<calls, pc>>
                  ELSE IF d.exc
                  THEN \* the exception leaves create_master_table
                       /\ master_record' = Update(master_record, times)
                       /\ calls' = calls \cup {Call("get_dcs_data_for_timerange", d)}
                       /\ pc' = "failed"
                       /\ UNCHANGED event_num
                  ELSE IF p.exc
                  THEN /\ master_record' =
                            Update(Update(master_record, times),
                                   (EventKey(event_num, "ValvePosAtStart") :> d.valve)
                                   @@ (EventKey(event_num, "ValveStatusAtStart") :>
                                          convert_valve_position_to_text(d.valve))
                                   @@ (EventKey(event_num, "AvgPumpSpd") :> d.pump))
                       /\ calls' = calls \cup {Call("get_dcs_data_for_timerange", d),
                                               Call("calculate_parameter_stats_for_timerange", p)}
                       /\ pc' = "failed"
                       /\ UNCHANGED event_num
                  ELSE /\ master_record' =
                            Update(Update(master_record, times),
                                   (EventKey(event_num, "ValvePosAtStart") :> d.valve)
                                   @@ (EventKey(event_num, "ValveStatusAtStart") :>
                                          convert_valve_position_to_text(d.valve))
                                   @@ (EventKey(event_num, "AvgPumpSpd") :> d.pump)
                                   @@ ParaFields(event_num, p.stats))
                       /\ calls' = calls \cup {Call("get_dcs_data_for_timerange", d),
                                               Call("calculate_parameter_stats_for_timerange", p)}
                       /\ event_num' = event_num + 1
                       /\ UNCHANGED pc
          ELSE \* "Event columns not found"
               /\ event_num' = event_num + 1
               /\ UNCHANGED <<master_record, calls, pc>>
    /\ UNCHANGED <<source_data, aprm_data, dcs_data, master_records, master_table,
                   batch_idx, vars2>>

\* master_records.append(master_record)
AppendRecord ==
    /\ pc = "events"
    /\ event_num > 3
    /\ master_records' = Append(master_records, master_record)
    /\ pc' = "batches"
    /\ UNCHANGED <<source_data, aprm_data, dcs_data, master_record, master_table,
                   batch_idx, event_num, calls, vars2>>

\* pd.DataFrame(master_records): the columns are the union of the records'
\* keys, a key a record lacks reads NaN
DataFrame(records) ==
    LET columns == UNION {DOMAIN records[i] : i \in DOMAIN records}
    IN [columns |-> columns,
        rows |-> [i \in DOMAIN records |->
                    [c \in columns |-> IF c \in DOMAIN records[i] THEN records[i][c] ELSE NaN]]]

\* master_table = pd.DataFrame(master_records); return master_table
ReturnTable ==
    /\ pc = "batches"
    /\ batch_idx = Len(aprm_data.rows)
    /\ master_table' = DataFrame(master_records)
    /\ pc' = "done"
    /\ UNCHANGED <<source_data, aprm_data, dcs_data, master_records, master_record,
                   batch_idx, event_num, calls, vars2>>

(***************************************************************************)
(* pipeline1: the input tables.                                            *)
(***************************************************************************)
EventCols == {EventKey(e, f) : e \in Events, f \in {"start", "end"}}
NotATime == Str("not a time")

DcsRow(t, v, p) == ("Time_dt" :> t) @@ ("valve_position" :> v) @@ ("pump_speed" :> p)
SrcRow(t, p1, p2, p3) ==
    ("Time" :> t) @@ (ParamCol(1) :> p1) @@ (ParamCol(2) :> p2) @@ (ParamCol(3) :> p3)

Restrict(f, cols) == [c \in DOMAIN f \cap cols |-> f[c]]
TableOf(cols, rows) == [columns |-> cols, rows |-> [i \in DOMAIN rows |-> Restrict(rows[i], cols)]]

SeqsUpTo(S, n) == UNION {[1..k -> S] : k \in 0..n}

DcsCols == {"Time_dt", "valve_position", "pump_speed"}
SrcCols == {"Time", ParamCol(1), ParamCol(2), ParamCol(3)}

RefDcs == TableOf(DcsCols, <<DcsRow(0, Flt(1, 1), Flt(3, 1)), DcsRow(MaxTime, Flt(0, 1), Str("5"))>>)
RefSrc == TableOf(SrcCols, <<SrcRow(0, Flt(1, 1), Flt(2, 1), Flt(5, 1)),
                             SrcRow(MaxTime, Str("3"), NaN, Flt(5, 1))>>)

BatchRow(id, cells) == ("Batch_ID" :> Str(id)) @@ cells
Window(e, s, t) == (EventKey(e, "start") :> s) @@ (EventKey(e, "end") :> t)
T(t) == Str(TimeStr(t))

AprmTable(cols, rowCells) ==
    TableOf({"Batch_ID"} \cup cols,
            [i \in DOMAIN rowCells |-> BatchRow("B" \o ToString(i), rowCells[i])])

\* the bound pairs of one event slot: null, empty, malformed or valid text
MissingPairs ==
    {<<s, T(MaxTime)>> : s \in {NaN, Str("")}} \cup {<<T(0), t>> : t \in {NaN, Str("")}}
        \cup {<<NaN, NaN>>}
MalformedPairs == {<<NotATime, T(MaxTime)>>, <<T(0), NotATime>>}
ValidPairs == {<<T(s), T(t)>> : s, t \in Times}

\* the cells of one event slot whose columns are cols
SlotCells(e, cols, pairs) ==
    {Restrict(Window(e, pr[1], pr[2]), cols) : pr \in pairs}

\* family 1: one batch; every slot has both, one or none of its columns and
\* null, empty, malformed or valid bounds
SlotChoices(e) ==
    SlotCells(e, EventCols, MissingPairs \cup MalformedPairs \cup {<<T(0), T(MaxTime)>>})
        \cup SlotCells(e, {EventKey(e, "start")}, {<<T(0), T(0)>>})
        \cup SlotCells(e, {EventKey(e, "end")}, {<<T(0), T(0)>>})
        \cup {<<>>}
BranchTables ==
    {[columns |-> {"Batch_ID"} \cup DOMAIN c1 \cup DOMAIN c2 \cup DOMAIN c3,
      rows |-> <<BatchRow("B1", c1 @@ c2 @@ c3)>>] :
        c1 \in SlotChoices(1), c2 \in SlotChoices(2), c3 \in SlotChoices(3)}

\* family 2: up to MaxBatches batches with malformed, valid and null bounds
LoopRows ==
    {c1 @@ c2 @@ c3 :
        c1 \in SlotCells(1, EventCols, {<<NotATime, T(MaxTime)>>, <<T(0), T(MaxTime)>>, <<NaN, T(0)>>}),
        c2 \in SlotCells(2, EventCols, {<<T(0), NotATime>>, <<T(0), T(0)>>}),
        c3 \in SlotCells(3, EventCols, {<<NotATime, NotATime>>, <<T(MaxTime), T(MaxTime)>>})}
LoopTables == {AprmTable(EventCols, rows) : rows \in SeqsUpTo(LoopRows, MaxBatches)}

\* families 3 and 4: one batch whose first event has any valid window and
\* whose second event has the same bounds exchanged
WindowTables ==
    {AprmTable({EventKey(e, f) : e \in {1, 2}, f \in {"start", "end"}},
               <<Window(1, pr[1], pr[2]) @@ Window(2, pr[2], pr[1])>>) :
        pr \in ValidPairs}

\* family 3: control-sample tables of up to MaxRows rows
DcsCells == {<<Flt(1, 1), Flt(3, 1)>>, <<Str("open"), Str("5")>>, <<Flt(1, 2), Str("x")>>}
DcsRows == {DcsRow(t, c[1], c[2]) : t \in Times, c \in DcsCells}
DcsTables == {TableOf(DcsCols, rows) : rows \in SeqsUpTo(DcsRows, MaxRows)}
\* one-row control-sample tables: every kind of valve and pump cell, every column set
ValveCells == {NaN, Flt(0, 1), Flt(1, 1), Flt(1, 2), Flt(2, 1), Str("1"), Str("open")}
PumpCells == {NaN, Flt(3, 1), Str("5"), Str("x")}
DcsOneRowTables ==
    {TableOf(cols, <<DcsRow(0, v, p)>>) :
        cols \in {DcsCols, DcsCols \ {"valve_position"}, DcsCols \ {"pump_speed"}},
        v \in ValveCells, p \in PumpCells}

\* family 4: process-sample tables of up to MaxRows rows
SrcCells == {<<Flt(1, 1), Flt(2, 1), Flt(5, 1)>>, <<Str("3"), NaN, Flt(5, 1)>>,
             <<Str("x"), Flt(4, 1), Flt(9, 1)>>}
SrcRows == {SrcRow(t, c[1], c[2], c[3]) : t \in Times, c \in SrcCells}
SrcTables == {TableOf(SrcCols, rows) : rows \in SeqsUpTo(SrcRows, MaxRows)}
SrcColumnTables ==
    {TableOf({"Time"} \cup cols, RefSrc.rows) : cols \in SUBSET (SrcCols \ {"Time"})}

InitTables ==
    \/ /\ aprm_data \in BranchTables \cup LoopTables
       /\ dcs_data = RefDcs
       /\ source_data = RefSrc
    \/ /\ aprm_data \in WindowTables
       /\ dcs_data \in DcsTables \cup DcsOneRowTables
       /\ source_data = RefSrc
    \/ /\ aprm_data \in WindowTables
       /\ dcs_data = RefDcs
       /\ source_data \in SrcTables \cup SrcColumnTables

Init1 ==
    /\ InitTables
    /\ master_records = <<>>
    /\ master_record = <<>>
    /\ master_table = NoTable
    /\ batch_idx = 0
    /\ event_num = 1
    /\ pc = "batches"
    /\ calls = {}

Init2 ==
    /\ xpc = "idle" /\ df = <<>> /\ test_ok = TRUE /\ row_idx = 0
    /\ structure = <<>> /\ emitted = <<>> /\ skipped = 0 /\ files_done = 0

Init == Init1 /\ Init2

Next == StartBatch \/ ProcessEvent \/ AppendRecord \/ ReturnTable

Spec == Init /\ [][Next]_vars

(***************************************************************************)
(* Properties of pipeline1.                                                *)
(***************************************************************************)
\* the record of batch i: finished, or the one being built
RecordOf(i) == IF i <= Len(master_records) THEN master_records[i] ELSE master_record

\* the event slots <<batch, event>> whose loop iteration has run
ProcessedSlots ==
    {<<i, e>> : i \in 1..Len(master_records), e \in Events}
        \cup (IF pc = "events" THEN {<<batch_idx, e>> : e \in 1..(event_num - 1)} ELSE {})

\* the processed slots of the batch the recorded calls belong to
CurrentSlots == {sl \in ProcessedSlots : sl[1] = batch_idx}

HasBounds(i, e) ==
    /\ EventKey(e, "start") \in DOMAIN aprm_data.rows[i]
    /\ EventKey(e, "end") \in DOMAIN aprm_data.rows[i]
StartOf(i, e) == aprm_data.rows[i][EventKey(e, "start")]
EndOf(i, e) == aprm_data.rows[i][EventKey(e, "end")]

IsNull(v) == v = NaN \/ v = None
IsTimeText(v) == \E t \in Times : v = Str(TimeStr(t))
TimeOf(v) == CHOOSE t \in Times : v = Str(TimeStr(t))
BoundMissing(v) == IsNull(v) \/ v = Str("")

\* every derived field of slot e is present in rec and holds the missing value
AllMissing(rec, e) ==
    /\ DerivedKeys(e) \subseteq DOMAIN rec
    /\ \A k \in DerivedKeys(e) :
          rec[k] = IF k = EventKey(e, "ValveStatusAtStart") THEN Str("Unknown") ELSE NaN

FixedKeys ==
    {"Batch_ID"} \cup UNION {{EventKey(e, "start"), EventKey(e, "end")} \cup DerivedKeys(e) : e \in Events}

\* C1: every finished master record has exactly the fixed key set (Batch_ID and
\* the 17 fields of each of E1, E2, E3), whichever branch each event took.
C1_Rectangular ==
    \A i \in 1..Len(master_records) : DOMAIN master_records[i] = FixedKeys

\* C2: create_master_table never aborts: the records built so far are one per
\* batch row read, in input order, it returns one record per batch row, a
\* slot whose bound text fails to parse has all its derived fields missing,
\* and a loop iteration changes no field written before it.
C2_State ==
    /\ pc # "failed"
    /\ Len(master_records) = (IF pc = "events" THEN batch_idx - 1 ELSE batch_idx)
    /\ \A i \in 1..Len(master_records) :
          master_records[i]["Batch_ID"] = aprm_data.rows[i]["Batch_ID"]
    /\ pc = "done" =>
          /\ Len(master_records) = Len(aprm_data.rows)
          /\ Len(master_table.rows) = Len(aprm_data.rows)
    /\ \A sl \in ProcessedSlots :
          (/\ HasBounds(sl[1], sl[2])
           /\ ~BoundMissing(StartOf(sl[1], sl[2])) /\ ~BoundMissing(EndOf(sl[1], sl[2]))
           /\ (~IsTimeText(StartOf(sl[1], sl[2])) \/ ~IsTimeText(EndOf(sl[1], sl[2]))))
          => AllMissing(RecordOf(sl[1]), sl[2])
C2_Step ==
    /\ \A i \in 1..Len(master_records) :
          i <= Len(master_records') /\ master_records'[i] = master_records[i]
    /\ (pc = "events" /\ pc' = "events") =>
          \A k \in DOMAIN master_record :
              k \in DOMAIN master_record' /\ master_record'[k] = master_record[k]
\* C2: the state part holds always and every step keeps what was written
C2_NeverAborts == [](C2_State) /\ [][C2_Step]_vars

\* two batches are finished, a bound of one slot of a record failed to parse,
\* and another slot of the same record was computed
C2_Witness ==
    /\ Len(master_records) >= 2
    /\ \E i \in 1..Len(master_records) : \E e1, e2 \in Events :
        /\ HasBounds(i, e1) /\ StartOf(i, e1) = NotATime
        /\ EventKey(e2, "ValvePosAtStart") \in DOMAIN master_records[i]
        /\ master_records[i][EventKey(e2, "ValvePosAtStart")] # NaN

\* C3: a slot whose start or end bound is null or the empty string has every
\* derived field missing ("Unknown" for the valve label), no selector or
\* aggregator was called for it, nothing was raised, and the loop moves on to
\* the next slot.
C3_State ==
    \A sl \in ProcessedSlots :
        (/\ HasBounds(sl[1], sl[2])
         /\ (BoundMissing(StartOf(sl[1], sl[2])) \/ BoundMissing(EndOf(sl[1], sl[2]))))
        => /\ AllMissing(RecordOf(sl[1]), sl[2])
           /\ pc # "failed"
           /\ sl \in CurrentSlots => \A c \in calls : c.event_num # sl[2]
C3_Step ==
    (/\ pc = "events" /\ event_num <= 3
     /\ HasBounds(batch_idx, event_num)
     /\ (BoundMissing(StartOf(batch_idx, event_num)) \/ BoundMissing(EndOf(batch_idx, event_num))))
    => (pc' = "events" /\ event_num' = event_num + 1 /\ calls' = calls)
\* C3: the state part holds always and a missing-bounds iteration only advances
C3_MissingBounds == [](C3_State) /\ [][C3_Step]_vars

\* the second slot had an empty start bound and the third slot was computed after it
C3_Witness ==
    /\ pc = "events" /\ event_num = 4
    /\ HasBounds(batch_idx, 2) /\ StartOf(batch_idx, 2) = Str("")
    /\ AllMissing(master_record, 2)
    /\ \E c \in calls : c.event_num = 3

\* the positions of the rows whose timestamp lies in [lo, hi]
InWindow(rows, tcol, lo, hi) == {i \in DOMAIN rows : lo <= rows[i][tcol] /\ rows[i][tcol] <= hi}

\* the numeric values of column col at the positions idx, in row order
RECURSIVE ValidValues(_, _, _, _)
ValidValues(rows, idx, col, i) ==
    IF i > Len(rows) THEN <<>>
    ELSE (IF i \in idx /\ col \in DOMAIN rows[i] /\ to_numeric(rows[i][col]).kind = "float"
          THEN <<to_numeric(rows[i][col])>> ELSE <<>>)
         \o ValidValues(rows, idx, col, i + 1)

\* the processed slots whose two bounds are valid timestamps
ValidSlots ==
    {sl \in ProcessedSlots :
        /\ HasBounds(sl[1], sl[2])
        /\ IsTimeText(StartOf(sl[1], sl[2])) /\ IsTimeText(EndOf(sl[1], sl[2]))}
SlotStart(sl) == TimeOf(StartOf(sl[1], sl[2]))
SlotEnd(sl) == TimeOf(EndOf(sl[1], sl[2]))
SrcWindow(sl) == InWindow(source_data.rows, "Time", SlotStart(sl), SlotEnd(sl))
DcsWindow(sl) == InWindow(dcs_data.rows, "Time_dt", SlotStart(sl), SlotEnd(sl))
ParamValues(sl, p) == ValidValues(source_data.rows, SrcWindow(sl), ParamCol(p), 1)
PumpValues(sl) == ValidValues(dcs_data.rows, DcsWindow(sl), "pump_speed", 1)

RECURSIVE SumSquares(_)
SumSquares(xs) == IF xs = <<>> THEN Flt(0, 1) ELSE Add(Mul(Head(xs), Head(xs)), SumSquares(Tail(xs)))

\* the square of a float that is rational or the root of a rational
SquareOf(v) == IF v.kind = "sqrt" THEN Flt(v.num, v.den) ELSE Mul(v, v)
Elements(xs) == {xs[j] : j \in DOMAIN xs}

\* C4: per parameter column, over the n numeric values of the window: n = 0
\* gives four missing statistics; n = 1 gives sd = 0 and avg = max = min = the
\* value; n >= 2 gives avg = sum / n, sd >= 0 with
\* n (n-1) sd^2 = n sum(x^2) - (sum x)^2 (the sample variance, divisor n-1),
\* and max / min the extrema. Each column's statistics are a function of that
\* column's values only.
C4_Statistics ==
    \A sl \in ValidSlots : \A p \in Params :
        LET rec == RecordOf(sl[1])
            xs == ParamValues(sl, p)
            n == Len(xs)
            avg == rec[ParaKey(sl[2], "Avg", p)]
            sd == rec[ParaKey(sl[2], "SD", p)]
            max == rec[ParaKey(sl[2], "Max", p)]
            min == rec[ParaKey(sl[2], "Min", p)]
        IN /\ n = 0 => (avg = NaN /\ sd = NaN /\ max = NaN /\ min = NaN)
           /\ n = 1 => (sd = Flt(0, 1) /\ avg = xs[1] /\ max = xs[1] /\ min = xs[1])
           /\ n >= 2 =>
                /\ avg.kind = "float" /\ Mul(avg, Flt(n, 1)) = SumSeq(xs)
                /\ sd.kind \in {"float", "sqrt"} /\ sd.num >= 0
                /\ Mul(SquareOf(sd), Flt(n * (n - 1), 1))
                      = Sub(Mul(Flt(n, 1), SumSquares(xs)), Mul(SumSeq(xs), SumSeq(xs)))
                /\ max \in Elements(xs) /\ \A x \in Elements(xs) : Leq(x, max)
                /\ min \in Elements(xs) /\ \A x \in Elements(xs) : Leq(min, x)

\* one column has two different values in the window (sd > 0), another column
\* of the same window has exactly one, a third has two
C4_Witness ==
    \E sl \in ValidSlots :
        /\ Len(ParamValues(sl, 1)) = 2 /\ Len(ParamValues(sl, 2)) = 1
        /\ RecordOf(sl[1])[ParaKey(sl[2], "SD", 1)].num > 0
        /\ RecordOf(sl[1])[ParaKey(sl[2], "SD", 2)] = Flt(0, 1)

\* C5: both selections hold exactly the rows with start <= t <= end, in the
\* table's row order; a valid pair with start > end selects nothing, raises
\* nothing and leaves every derived field of the slot missing.
C5_IntervalSelection ==
    /\ \A c \in calls :
          c.selected =>
            LET rows == IF c.fn = "get_dcs_data_for_timerange"
                        THEN dcs_data.rows ELSE source_data.rows
                tcol == IF c.fn = "get_dcs_data_for_timerange" THEN "Time_dt" ELSE "Time"
            IN /\ IsTimeText(c.start_time_str) /\ IsTimeText(c.end_time_str)
               /\ \A j \in 1..(Len(c.subset) - 1) : c.subset[j] < c.subset[j + 1]
               /\ {c.subset[j] : j \in DOMAIN c.subset}
                     = InWindow(rows, tcol, TimeOf(c.start_time_str), TimeOf(c.end_time_str))
    /\ \A sl \in ValidSlots :
          /\ sl \in CurrentSlots =>
                \A fn \in {"get_dcs_data_for_timerange", "calculate_parameter_stats_for_timerange"} :
                    \E c \in calls : c.event_num = sl[2] /\ c.fn = fn /\ c.selected
          /\ SlotStart(sl) > SlotEnd(sl) =>
                /\ AllMissing(RecordOf(sl[1]), sl[2])
                /\ pc # "failed"
                /\ sl \in CurrentSlots => \A c \in calls : c.event_num = sl[2] => c.subset = <<>>

\* the first slot selected two control rows, one at the start and one at the
\* end of its window, and the second slot's window is the reverse of the first
C5_Witness ==
    /\ pc = "events" /\ event_num > 2
    /\ \E c \in calls :
          /\ c.event_num = 1 /\ c.fn = "get_dcs_data_for_timerange"
          /\ Len(c.subset) = 2
          /\ dcs_data.rows[c.subset[1]]["Time_dt"] = TimeOf(c.end_time_str)
          /\ dcs_data.rows[c.subset[2]]["Time_dt"] = TimeOf(c.start_time_str)
          /\ TimeOf(c.start_time_str) < TimeOf(c.end_time_str)
    /\ \E c \in calls : c.event_num = 2 /\ c.selected /\ c.subset = <<>>
    /\ AllMissing(master_record, 2)

\* C6: a missing column or an uninterpretable value costs only the field
\* derived from it: when the window holds numeric pump_speed values the
\* average pump speed is computed whatever valve_position holds, and a
\* parameter column with numeric values has its statistics whatever the other
\* parameter columns hold.
C6_SiblingFieldsCompute ==
    \A sl \in ValidSlots :
        /\ PumpValues(sl) # <<>> => RecordOf(sl[1])[EventKey(sl[2], "AvgPumpSpd")] # NaN
        /\ \A p \in Params :
              ParamValues(sl, p) # <<>> => RecordOf(sl[1])[ParaKey(sl[2], "Avg", p)] # NaN

\* C9: with a non-empty control selection the average pump speed is the mean
\* of the numeric pump_speed values of the window, missing only when there is
\* none, whatever the valve_position values are.
C9_AvgPumpSpeed ==
    \A sl \in ValidSlots :
        DcsWindow(sl) # {} =>
            RecordOf(sl[1])[EventKey(sl[2], "AvgPumpSpd")]
                = (IF PumpValues(sl) = <<>> THEN NaN
                   ELSE DivInt(SumSeq(PumpValues(sl)), Len(PumpValues(sl))))

\* C10: in every record, a slot that has its fields has the label of its raw
\* valve position: "Unknown" for a missing position, "Open" for 1, "Close"
\* for 0, "Partial (<value>)" otherwise.
C10_ValveLabel ==
    \A sl \in ProcessedSlots :
        LET rec == RecordOf(sl[1])
            pos == rec[EventKey(sl[2], "ValvePosAtStart")]
            status == rec[EventKey(sl[2], "ValveStatusAtStart")]
        IN EventKey(sl[2], "ValveStatusAtStart") \in DOMAIN rec =>
            /\ EventKey(sl[2], "ValvePosAtStart") \in DOMAIN rec
            /\ status = (CASE pos = NaN -> Str("Unknown")
                           [] pos = Flt(1, 1) -> Str("Open")
                           [] pos = Flt(0, 1) -> Str("Close")
                           [] OTHER -> Str("Partial (" \o FloatRepr(pos) \o ")"))
            /\ pos = Flt(1, 2) => status = Str("Partial (0.5)")

\* a record whose first slot reads a valve position of 1 ("Open") and whose
\* second slot, with a null bound, is "Unknown"
C10_Witness ==
    \E i \in 1..Len(master_records) :
        /\ HasBounds(i, 1) /\ HasBounds(i, 2)
        /\ master_records[i][EventKey(1, "ValveStatusAtStart")] = Str("Open")
        /\ BoundMissing(StartOf(i, 2))
        /\ master_records[i][EventKey(2, "ValveStatusAtStart")] = Str("Unknown")

(***************************************************************************)
(* pipeline2: text of the alias cells, as sequences of characters.         *)
(***************************************************************************)
\* str.split(','), on the text from position i on, cur the piece being read
RECURSIVE SplitFrom(_, _, _)
SplitFrom(text, i, cur) ==
    IF i > Len(text) THEN <<cur>>
    ELSE IF text[i] = "," THEN <<cur>> \o SplitFrom(text, i + 1, <<>>)
    ELSE SplitFrom(text, i + 1, Append(cur, text[i]))
split(text) == SplitFrom(text, 1, <<>>)

RECURSIVE LStrip(_)
LStrip(text) == IF text # <<>> /\ Head(text) = " " THEN LStrip(Tail(text)) ELSE text
RECURSIVE RStrip(_)
RStrip(text) ==
    IF text # <<>> /\ text[Len(text)] = " " THEN RStrip(SubSeq(text, 1, Len(text) - 1)) ELSE text
\* str.strip()
strip(text) == RStrip(LStrip(text))

\* a cell of the 'Alias name' column: null, or its text
NullCell == [null |-> TRUE, text |-> <<>>]
TextCell(text) == [null |-> FALSE, text |-> text]

Contains(xs, x) == \E j \in DOMAIN xs : xs[j] = x

\* [a.strip() for a in alias_raw.split(',') if a.strip()]
RECURSIVE StripAll(_)
StripAll(pieces) ==
    IF pieces = <<>> THEN <<>>
    ELSE (IF strip(Head(pieces)) # <<>> THEN <<strip(Head(pieces))>> ELSE <<>>)
         \o StripAll(Tail(pieces))

\* the for alias in alias_raw.split(',') loop of the existing-tag branch
RECURSIVE AppendNew(_, _)
AppendNew(aliases, pieces) ==
    IF pieces = <<>> THEN aliases
    ELSE LET alias == strip(Head(pieces))
         IN AppendNew(IF alias # <<>> /\ ~Contains(aliases, alias)
                      THEN Append(aliases, alias) ELSE aliases,
                      Tail(pieces))

\* df.groupby(['Area name', 'Unit name'])['Alias name']: nunique() < count()
\* in some group; both skip the null cells
validate_aliases(table) ==
    LET groups == {<<table[i]["Area name"], table[i]["Unit name"]>> : i \in DOMAIN table}
        cells(g) == {i \in DOMAIN table :
                        /\ <<table[i]["Area name"], table[i]["Unit name"]>> = g
                        /\ ~table[i]["Alias name"].null}
        count(g) == Cardinality(cells(g))
        nunique(g) == Cardinality({table[i]["Alias name"].text : i \in cells(g)})
    IN ~(\E g \in groups : nunique(g) < count(g))

data_source_name == "DATA_SOURCE_NAME"

\* structure[area][unit], created empty on first use (defaultdict)
UnitsOf(st, area) == IF area \in DOMAIN st THEN st[area] ELSE <<>>
UnitData(st, area, unit) ==
    IF unit \in DOMAIN UnitsOf(st, area) THEN UnitsOf(st, area)[unit]
    ELSE [description |-> "", tags |-> <<>>]

\* the body of the for _, row in df.iterrows() loop of convert_csv_to_xml
AddRow(st, row) ==
    LET area == row["Area name"]
        unit == row["Unit name"]
        tag == row["Tag name"]
        alias_raw == IF ~row["Alias name"].null THEN row["Alias name"].text ELSE <<>>
        tags == UnitData(st, area, unit).tags
        found == {j \in DOMAIN tags : tags[j].name = tag}
        newtags ==
            IF found # {}
            THEN LET j == CHOOSE j \in found : \A k \in found : j <= k
                 IN [tags EXCEPT ![j].aliases = AppendNew(tags[j].aliases, split(alias_raw))]
            ELSE Append(tags, [name |-> tag, map |-> row["Tag map"],
                               dataSourceName |-> data_source_name,
                               aliases |-> StripAll(split(alias_raw))])
        unitdata == [description |-> row["Unit description"], tags |-> newtags]
    IN Update(st, (area :> Update(UnitsOf(st, area), (unit :> unitdata))))

(***************************************************************************)
(* pipeline2: the main loop over the files, one step per stage.            *)
(***************************************************************************)
A1 == <<"A", "1">>
A2 == <<"A", "2">>
AliasCells ==
    {NullCell, TextCell(A1), TextCell(A2), TextCell(A1 \o <<",">> \o A2),
     TextCell(A1 \o <<",">> \o A1), TextCell(<<" ">> \o A1)}

CsvRow(area, unit, tag, alias) ==
    ("Area name" :> area) @@ ("Unit name" :> unit) @@ ("Unit description" :> unit \o " description")
        @@ ("Tag name" :> tag) @@ ("Tag map" :> tag \o ".PV") @@ ("Alias name" :> alias)
CsvRows ==
    {CsvRow(area, "U1", tag, alias) :
        area \in {"Area1", "Area2"}, tag \in {"T1", "T2"}, alias \in AliasCells}
CsvTables == SeqsUpTo(CsvRows, MaxXmlRows)

\* df = pd.read_csv(csv_file_path); if validate_aliases(df): ... else: ...
ValidateFile ==
    /\ xpc = "idle"
    /\ files_done < MaxFiles
    /\ \E table \in CsvTables :
          /\ df' = table
          /\ test_ok' = validate_aliases(table)
          /\ xpc' = IF validate_aliases(table) THEN "convert" ELSE "skip"
    /\ structure' = <<>>
    /\ row_idx' = 0
    /\ UNCHANGED <<emitted, skipped, files_done, vars1>>

\* print("Skipping file due to validation issues")
SkipFile ==
    /\ xpc = "skip"
    /\ skipped' = skipped + 1
    /\ files_done' = files_done + 1
    /\ xpc' = "idle"
    /\ UNCHANGED <<df, test_ok, row_idx, structure, emitted, vars1>>

\* convert_csv_to_xml: one row of the table
ConvertRow ==
    /\ xpc = "convert"
    /\ row_idx < Len(df)
    /\ structure' = AddRow(structure, df[row_idx + 1])
    /\ row_idx' = row_idx + 1
    /\ UNCHANGED <<xpc, df, test_ok, emitted, skipped, files_done, vars1>>

\* convert_csv_to_xml: build the tree from structure and write the document
WriteXml ==
    /\ xpc = "convert"
    /\ row_idx = Len(df)
    /\ emitted' = Append(emitted, structure)
    /\ files_done' = files_done + 1
    /\ xpc' = "idle"
    /\ UNCHANGED <<df, test_ok, row_idx, structure, skipped, vars1>>

InitXml ==
    /\ aprm_data = AprmTable(EventCols, <<>>)
    /\ dcs_data = RefDcs
    /\ source_data = RefSrc
    /\ master_records = <<>>
    /\ master_record = <<>>
    /\ master_table = NoTable
    /\ batch_idx = 0
    /\ event_num = 1
    /\ pc = "batches"
    /\ calls = {}
    /\ Init2

NextXml == ValidateFile \/ SkipFile \/ ConvertRow \/ WriteXml

SpecXml == InitXml /\ [][NextXml]_vars

(***************************************************************************)
(* Properties of pipeline2.                                                *)
(***************************************************************************)
\* the alias names of one cell
AliasNames(cell) == IF cell.null THEN {} ELSE Elements(StripAll(split(cell.text)))

\* two rows of one area+unit group share an alias name
SharedAlias(table) ==
    \E i, j \in DOMAIN table :
        /\ i < j
        /\ table[i]["Area name"] = table[j]["Area name"]
        /\ table[i]["Unit name"] = table[j]["Unit name"]
        /\ AliasNames(table[i]["Alias name"]) \cap AliasNames(table[j]["Alias name"]) # {}

\* C7: a table in which two rows of one area+unit group share an alias name
\* (alone in its cell or inside a comma-separated cell) fails validate_aliases,
\* is skipped and has no document written.
C7_DuplicateAliasesRejected ==
    (xpc # "idle" \/ files_done > 0) /\ SharedAlias(df)
        => /\ ~test_ok
           /\ xpc # "convert"
           /\ emitted = <<>>

\* C8: in the structure being built and in every written document each tag
\* name occurs once under its area+unit and no alias name occurs twice in a
\* tag's alias list.
Deduplicated(st) ==
    \A area \in DOMAIN st : \A unit \in DOMAIN st[area] :
        LET tags == st[area][unit].tags
        IN /\ \A j, k \in DOMAIN tags : tags[j].name = tags[k].name => j = k
           /\ \A j \in DOMAIN tags : \A a, b \in DOMAIN tags[j].aliases :
                 tags[j].aliases[a] = tags[j].aliases[b] => a = b
\* C8: the structure being built and every written document are deduplicated
C8_AliasesDeduplicated ==
    /\ xpc = "convert" => Deduplicated(structure)
    /\ \A d \in DOMAIN emitted : Deduplicated(emitted[d])

====
